---- MODULE Spec2Model ----
(***************************************************************************)
(* Two validators of stdnum-js: the South African TIN module               *)
(* (src/src/no/kontonr.ts) and the Andorran NRT module                     *)
(* (src/unnamed/part_000), with the string and checksum helpers they call. *)
(*                                                                         *)
(* A JavaScript string is a sequence of one-character strings.  A caller   *)
(* holds a value `cur` (at first the raw input) and applies compact,       *)
(* format or validate to it; every call is recorded in `trace`.  A call    *)
(* that yields a string (compact, format, or the compact form of a valid   *)
(* result) hands that string to the next call.                             *)
(***************************************************************************)
EXTENDS Integers, Sequences, FiniteSets, TLC

VARIABLES mod, input, cur, trace

vars == <<mod, input, cur, trace>>

(***************************************************************************)
(* Bounds of the model.                                                    *)
(***************************************************************************)
\* calls made in one run
MaxSteps == 3
\* leading "0000" runs a caller may put in front of a South African number
MaxZeroRuns == 2

(***************************************************************************)
(* Characters.                                                             *)
(***************************************************************************)
DigitSeq == <<"0", "1", "2", "3", "4", "5", "6", "7", "8", "9">>
UpperSeq == <<"A", "B", "C", "D", "E", "F", "G", "H", "I", "J", "K", "L", "M",
              "N", "O", "P", "Q", "R", "S", "T", "U", "V", "W", "X", "Y", "Z">>
LowerSeq == <<"a", "b", "c", "d", "e", "f", "g", "h", "i", "j", "k", "l", "m",
              "n", "o", "p", "q", "r", "s", "t", "u", "v", "w", "x", "y", "z">>
\* the characters of the model in UTF-16 code unit order
CodeOrder == <<" ", "#", "-", ".">> \o DigitSeq \o UpperSeq \o LowerSeq

Range(s) == {s[i] : i \in DOMAIN s}
DigitChars == Range(DigitSeq)
Letters == Range(UpperSeq) \cup Range(LowerSeq)

DigitVal(c) == (CHOOSE i \in DOMAIN DigitSeq : DigitSeq[i] = c) - 1
CharRank(c) == CHOOSE i \in DOMAIN CodeOrder : CodeOrder[i] = c

\* String.prototype.toLocaleUpperCase, one character
ToUpper(c) ==
    IF c \in Range(LowerSeq)
    THEN UpperSeq[CHOOSE i \in DOMAIN LowerSeq : LowerSeq[i] = c]
    ELSE c

\* value.substr(from) / value.substring(from, to), 0-based, end exclusive
SubStr(s, from, to) ==
    IF to <= from THEN <<>> ELSE [i \in 1..(to - from) |-> s[from + i]]

StartsWith(s, p) ==
    /\ Len(s) >= Len(p)
    /\ \A i \in DOMAIN p : s[i] = p[i]

\* the relational operator > on two strings: lexicographic on code units
RECURSIVE StrGreater(_, _)
StrGreater(a, b) ==
    IF a = <<>> THEN FALSE
    ELSE IF b = <<>> THEN TRUE
    ELSE IF a[1] # b[1] THEN CharRank(a[1]) > CharRank(b[1])
    ELSE StrGreater(Tail(a), Tail(b))

StrIncludes(s, c) == c \in Range(s)

\* String(n) for n >= 0: the decimal rendering, no padding
RECURSIVE ToDecimal(_)
ToDecimal(n) ==
    IF n < 10 THEN <<DigitSeq[n + 1]>>
    ELSE ToDecimal(n \div 10) \o <<DigitSeq[(n % 10) + 1]>>

\* value.padStart(n, '0')
RECURSIVE PadStart(_, _)
PadStart(s, n) == IF Len(s) >= n THEN s ELSE PadStart(<<"0">> \o s, n)

(***************************************************************************)
(* The shared helpers (util/strings, util/checksum).                       *)
(***************************************************************************)
Separators == {" ", "-", "."}

\* cleanUnicode(input, ' -.'): [value, err]
cleanUnicode(s, deletechars) ==
    LET kept == SelectSeq(s, LAMBDA c : c \notin deletechars)
        up   == [i \in DOMAIN kept |-> ToUpper(kept[i])]
    IN  IF \E i \in DOMAIN up : up[i] \notin (DigitChars \cup Letters)
        THEN [val |-> <<>>, err |-> "InvalidFormat"]
        ELSE [val |-> up, err |-> "none"]

isdigits(s) == s # <<>> /\ \A i \in DOMAIN s : s[i] \in DigitChars

isalpha(s) == s # <<>> /\ \A i \in DOMAIN s : s[i] \in Letters

\* strings.splitAt(value, 4, 6)
splitAt(s, a, b) == <<SubStr(s, 0, a), SubStr(s, a, b), SubStr(s, b, Len(s))>>

\* strings.splitAt(value, -1): [front, check]
splitLast(s) == <<SubStr(s, 0, Len(s) - 1), SubStr(s, Len(s) - 1, Len(s))>>

\* parts.join('.')
RECURSIVE Join(_, _)
Join(parts, sep) ==
    IF parts = <<>> THEN <<>>
    ELSE IF Len(parts) = 1 THEN parts[1]
    ELSE parts[1] \o <<sep>> \o Join(Tail(parts), sep)

\* formatPattern(pattern, value): '?' takes the next character of the value
RECURSIVE formatPattern(_, _)
formatPattern(pattern, value) ==
    IF pattern = <<>> THEN <<>>
    ELSE IF pattern[1] = "?"
         THEN IF value = <<>> THEN formatPattern(Tail(pattern), value)
              ELSE <<value[1]>> \o formatPattern(Tail(pattern), Tail(value))
         ELSE <<pattern[1]>> \o formatPattern(Tail(pattern), value)

\* the Luhn total with the doubling begun at the rightmost digit
RECURSIVE LuhnSumFromRightmost(_)
LuhnSumFromRightmost(s) ==
    IF s = <<>> THEN 0
    ELSE LET d == DigitVal(s[1])
             fromRight == Len(s) - 1
             dbl == IF 2 * d > 9 THEN 2 * d - 9 ELSE 2 * d
         IN  (IF fromRight % 2 = 0 THEN dbl ELSE d) + LuhnSumFromRightmost(Tail(s))

\* the Luhn total: from the right, every second digit doubled, minus 9 above 9
RECURSIVE LuhnSum(_)
LuhnSum(s) ==
    IF s = <<>> THEN 0
    ELSE LET d == DigitVal(s[1])
             \* distance of s[1] from the rightmost digit
             fromRight == Len(s) - 1
             dbl == IF 2 * d > 9 THEN 2 * d - 9 ELSE 2 * d
         IN  (IF fromRight % 2 = 1 THEN dbl ELSE d) + LuhnSum(Tail(s))

luhnChecksumValidate(s) == LuhnSum(s) % 10 = 0

\* weightedSum(value, {weights, modulus})
RECURSIVE WeightedTotal(_, _)
WeightedTotal(s, weights) ==
    IF s = <<>> \/ weights = <<>> THEN 0
    ELSE DigitVal(s[1]) * weights[1] + WeightedTotal(Tail(s), Tail(weights))

weightedSum(s, weights, modulus) == WeightedTotal(s, weights) % modulus

(***************************************************************************)
(* Outcomes of a call.                                                     *)
(*   kind "value":  a string was returned (val)                            *)
(*   kind "throw":  an error was thrown (err)                              *)
(*   kind "result": a ValidateReturn (ok = isValid, val = compact, err,    *)
(*                  isIndividual, isCompany); checks names the checksum    *)
(*                  primitives that were evaluated on the way              *)
(*   kind "bool":   a boolean was returned (ok)                            *)
(***************************************************************************)
Outcome(kind, val, err, ok, ind, com, checks) ==
    [kind |-> kind, val |-> val, err |-> err, ok |-> ok,
     isIndividual |-> ind, isCompany |-> com, checks |-> checks]

Returned(v) == Outcome("value", v, "none", TRUE, FALSE, FALSE, {})
Thrown(e) == Outcome("throw", <<>>, e, FALSE, FALSE, FALSE, {})
Invalid(e, checks) == Outcome("result", <<>>, e, FALSE, FALSE, FALSE, checks)
Valid(c, ind, com, checks) == Outcome("result", c, "none", TRUE, ind, com, checks)
Answered(b) == Outcome("bool", <<>>, "none", b, FALSE, FALSE, {})

(***************************************************************************)
(* South African TIN: src/src/no/kontonr.ts                                *)
(***************************************************************************)
ZeroRun == <<"0", "0", "0", "0">>

\* the weights with the first two exchanged
WeightsSwapped == <<7, 6, 8, 9, 4, 5, 6, 7, 8, 9>>

Weights == <<6, 7, 8, 9, 4, 5, 6, 7, 8, 9>>
Modulus == 11

\* clean without the strip of a leading "0000"
ZaCleanNoStrip(s) == cleanUnicode(s, Separators)

\* clean(input): [value, err]
ZaClean(s) ==
    LET r == cleanUnicode(s, Separators)
    IN  IF r.err # "none" THEN r
        ELSE IF StartsWith(r.val, ZeroRun)
             THEN [val |-> SubStr(r.val, 4, Len(r.val)), err |-> "none"]
             ELSE r

\* impl.compact(input)
ZaCompact(s) ==
    LET r == ZaClean(s)
    IN  IF r.err # "none" THEN Thrown(r.err) ELSE Returned(r.val)

\* impl.format(input): the error of clean is dropped
ZaFormat(s) ==
    LET r == ZaClean(s)
    IN  Returned(Join(splitAt(PadStart(r.val, 11), 4, 6), "."))

\* the length test with the 10 digits of the module's header accepted too
ZaLengthOkTen(value) == Len(value) = 11 \/ Len(value) = 7 \/ Len(value) = 10

\* value.length !== 11 && value.length !== 7, negated
ZaLengthOk(value) == Len(value) = 11 \/ Len(value) = 7

\* impl.validate(input)
ZaValidate(s) ==
    LET r == ZaClean(s)
        value == r.val
        parts == splitLast(value)
        sum   == weightedSum(parts[1], Weights, Modulus)
        \* the 7-digit test evaluates the Luhn check
        luhn  == IF Len(value) = 7 THEN {"luhn"} ELSE {}
    IN  IF r.err # "none" THEN Invalid(r.err, {})
        ELSE IF ~ZaLengthOk(value) THEN Invalid("InvalidLength", {})
        ELSE IF ~isdigits(value) THEN Invalid("InvalidFormat", {})
        ELSE IF Len(value) = 7 /\ ~luhnChecksumValidate(value)
             THEN Invalid("InvalidChecksum", luhn)
        ELSE IF Len(value) = 11 /\ ToDecimal(sum) # parts[2]
             THEN Invalid("InvalidChecksum", luhn \cup {"weighted"})
        ELSE Valid(value, FALSE, TRUE,
                   luhn \cup (IF Len(value) = 11 THEN {"weighted"} ELSE {}))

(***************************************************************************)
(* Andorran NRT: src/unnamed/part_000                                      *)
(***************************************************************************)
NrtPattern == <<"?", "-", "?", "?", "?", "?", "?", "?", "-", "?">>
NrtLeading == <<"A", "C", "D", "E", "F", "G", "L", "O", "P", "U">>
Mid699999 == <<"6", "9", "9", "9", "9", "9">>
Mid800000 == <<"8", "0", "0", "0", "0", "0">>

\* clean(input)
AdClean(s) == cleanUnicode(s, Separators)

\* NrtSingleton.compact(input)
AdCompact(s) ==
    LET r == AdClean(s)
    IN  IF r.err # "none" THEN Thrown(r.err)
        ELSE Returned([i \in DOMAIN r.val |-> ToUpper(r.val[i])])

\* NrtSingleton.format(input).  thisBound: the call has a receiver that
\* carries compact (Nrt.format(x), or the module namespace); the exported
\* `format` called on its own has this = undefined and this.compact throws.
AdFormat(s, thisBound) ==
    IF ~thisBound THEN Thrown("TypeError")
    ELSE LET c == AdCompact(s)
         IN  IF c.kind = "throw" THEN c
             ELSE Returned(formatPattern(NrtPattern, c.val))

\* the F exclusion with >= in place of >
NrtExcludedFGe(v, mid) ==
    v[1] = "F" /\ (StrGreater(mid, Mid699999) \/ mid = Mid699999)

\* v[0] === "F" && mid > "699999"
NrtExcludedF(v, mid) == v[1] = "F" /\ StrGreater(mid, Mid699999)

\* "AL".includes(v[0]) && mid > "699999" && mid < "800000"
NrtExcludedAL(v, mid) ==
    /\ StrIncludes(<<"A", "L">>, v[1])
    /\ StrGreater(mid, Mid699999)
    /\ StrGreater(Mid800000, mid)

\* isIndividual: "AF".includes(v[0])
NrtIsIndividual(v) == StrIncludes(<<"A", "F">>, v[1])

\* isCompany with the F of "AF" left out
NrtIsCompanyA(v) == ~StrIncludes(<<"A">>, v[1])

\* isCompany: !"AF".includes(v[0])
NrtIsCompany(v) == ~StrIncludes(<<"A", "F">>, v[1])

\* NrtSingleton.validate(value)
AdValidate(s) ==
    LET r == AdClean(s)
        v == r.val
    IN  IF r.err # "none" THEN Invalid(r.err, {})
        ELSE IF Len(v) # 8 THEN Invalid("InvalidLength", {})
        ELSE LET mid == SubStr(v, 1, Len(v) - 1)
             IN  IF ~isalpha(<<v[1]>>) \/ ~isalpha(<<v[Len(v)]>>)
                 THEN Invalid("InvalidFormat", {})
                 ELSE IF ~isdigits(mid) THEN Invalid("InvalidFormat", {})
                 ELSE IF ~StrIncludes(NrtLeading, v[1])
                      THEN Invalid("InvalidComponent", {})
                 ELSE IF NrtExcludedF(v, mid) THEN Invalid("InvalidComponent", {})
                 ELSE IF NrtExcludedAL(v, mid) THEN Invalid("InvalidComponent", {})
                 ELSE Valid(v, NrtIsIndividual(v), NrtIsCompany(v), {})

(***************************************************************************)
(* Inputs.  Every seed is taken with each single character replaced by     *)
(* each character of the module's alphabet; a South African input may      *)
(* carry up to MaxZeroRuns leading "0000" runs.                            *)
(***************************************************************************)
Vary(s, chars) == {s} \cup {[s EXCEPT ![i] = c] : i \in DOMAIN s, c \in chars}

RECURSIVE ZeroRuns(_)
ZeroRuns(k) == IF k = 0 THEN <<>> ELSE ZeroRun \o ZeroRuns(k - 1)

ZaSeeds ==
    { <<"0", "0", "0", "1", "3", "1", "3">>,
      <<"1", "2", "3", "4", "5", "6", "6">>,
      <<"0", "0", "0", "0", "0", "0", "0">>,
      <<"1", "2", "3", "4", "5", "6", "7", "8", "9", "0", "3">>,
      <<"1", "0", "0", "0", "1", "0", "0", "0", "0", "0", "0">>,
      <<"0", "1", "2", "3", "4", "5", "6", "7", "8", "9">> }

ZaInputs ==
    { ZeroRuns(k) \o core :
        k \in 0..MaxZeroRuns,
        core \in UNION {Vary(s, DigitChars \cup {"A", "#", "-"}) : s \in ZaSeeds} }

AdSeeds ==
    { <<"F", "6", "9", "9", "9", "9", "9", "A">>,
      <<"F", "7", "0", "0", "0", "0", "0", "A">>,
      <<"L", "7", "5", "0", "0", "0", "0", "C">>,
      <<"U", "1", "2", "3", "4", "5", "6", "x">> }

AdInputs ==
    UNION {Vary(s, DigitChars \cup {"A", "F", "X", "f", "-", "#"}) : s \in AdSeeds}

Luhn10 == <<"7", "9", "9", "2", "7", "3", "9", "8", "7", "1">>
Luhn11 == <<"7", "9", "9", "2", "7", "3", "9", "8", "7", "1", "3">>

LuhnInputs == Vary(Luhn10, DigitChars) \cup Vary(Luhn11, DigitChars)

(***************************************************************************)
(* The state machine.                                                      *)
(***************************************************************************)
Init ==
    /\ mod \in {"za", "ad", "luhn"}
    /\ input \in (CASE mod = "za" -> ZaInputs
                    [] mod = "ad" -> AdInputs
                    [] OTHER -> LuhnInputs)
    /\ cur = input
    /\ trace = <<>>

\* one call op(cur) with outcome out: recorded, and a returned string (or the
\* compact form of a valid result) becomes the value the caller holds
Call(op, out) ==
    /\ Len(trace) < MaxSteps
    /\ trace' = Append(trace, [op |-> op, arg |-> cur] @@ out)
    /\ cur' = IF out.kind = "value" \/ (out.kind = "result" /\ out.ok)
              THEN out.val ELSE cur
    /\ UNCHANGED <<mod, input>>

Compact ==
    /\ mod = "za"
    /\ Call("compact", ZaCompact(cur))

Format ==
    /\ mod = "za"
    /\ Call("format", ZaFormat(cur))

Validate ==
    /\ mod = "za"
    /\ Call("validate", ZaValidate(cur))

NrtCompact ==
    /\ mod = "ad"
    /\ Call("compact", AdCompact(cur))

NrtFormat ==
    /\ mod = "ad"
    /\ \E thisBound \in BOOLEAN : Call("format", AdFormat(cur, thisBound))

NrtValidate ==
    /\ mod = "ad"
    /\ Call("validate", AdValidate(cur))

Luhn ==
    /\ mod = "luhn"
    /\ Call("luhn", Answered(luhnChecksumValidate(cur)))

\* the caller retypes one digit of a number that has just validated
Mistype ==
    /\ mod = "za"
    /\ trace # <<>>
    /\ trace[Len(trace)].op = "validate"
    /\ trace[Len(trace)].ok
    /\ \E i \in DOMAIN cur :
          \E d \in DigitChars \ {cur[i]} :
             Call("mistype", Returned([cur EXCEPT ![i] = d]))

Next ==
    \/ Compact
    \/ Format
    \/ Validate
    \/ NrtCompact
    \/ NrtFormat
    \/ NrtValidate
    \/ Luhn
    \/ Mistype

Spec == Init /\ [][Next]_vars

(***************************************************************************)
(* Properties.  Every call is the last step of the trace in the state     *)
(* right after it, so a statement about the last steps of the trace in     *)
(* every reachable state is a statement about every call.                  *)
(***************************************************************************)
Steps == DOMAIN trace

\* the last step is step i
LastIs(i) == i \in Steps /\ i = Len(trace)

\* the decimal value of a digit string
RECURSIVE NumVal(_)
NumVal(s) ==
    IF s = <<>> THEN 0
    ELSE 10 * NumVal(SubStr(s, 0, Len(s) - 1)) + DigitVal(s[Len(s)])

AllDigits(s) == \A i \in DOMAIN s : s[i] \in DigitChars

\* C1: compact is idempotent: whenever compact(x) returns y, compact(y)
\* returns y as well (both modules).
CompactIdempotent ==
    \A i \in Steps :
        /\ LastIs(i + 1)
        /\ trace[i].op = "compact"
        /\ trace[i].kind = "value"
        /\ trace[i + 1].op = "compact"
        => /\ trace[i + 1].arg = trace[i].val
           /\ trace[i + 1].kind = "value"
           /\ trace[i + 1].val = trace[i].val

\* C2: round trip: for v the compact form of a valid result, and format(v)
\* returning a string, compact(format(v)) returns v (both modules).
FormatCompactRoundTrip ==
    \A i \in Steps :
        /\ LastIs(i + 2)
        /\ trace[i].op = "validate"
        /\ trace[i].ok
        /\ trace[i + 1].op = "format"
        /\ trace[i + 1].kind = "value"
        /\ trace[i + 2].op = "compact"
        => /\ trace[i + 1].arg = trace[i].val
           /\ trace[i + 2].arg = trace[i + 1].val
           /\ trace[i + 2].kind = "value"
           /\ trace[i + 2].val = trace[i].val

NrtShapeF(s) ==
    LET c == AdClean(s)
    IN  /\ c.err = "none"
        /\ Len(c.val) = 8
        /\ c.val[1] \in Letters
        /\ c.val[8] \in Letters
        /\ AllDigits(SubStr(c.val, 1, 7))
        /\ c.val[1] = "F"

\* C4: component exclusion of the Andorran validate: for a cleaned value of
\* the shape letter, six digits, letter that begins with F, the result is
\* InvalidComponent when the six digits exceed 699999 and Valid otherwise.
ComponentExclusion ==
    \A i \in Steps :
        /\ LastIs(i)
        /\ mod = "ad"
        /\ trace[i].op = "validate"
        /\ NrtShapeF(trace[i].arg)
        => IF NumVal(SubStr(AdClean(trace[i].arg).val, 1, 7)) > 699999
           THEN ~trace[i].ok /\ trace[i].err = "InvalidComponent"
           ELSE trace[i].ok

\* an F number above 699999 has been rejected with InvalidComponent
ComponentExclusionWitness ==
    \E i \in Steps :
        /\ mod = "ad"
        /\ trace[i].op = "validate"
        /\ NrtShapeF(trace[i].arg)
        /\ NumVal(SubStr(AdClean(trace[i].arg).val, 1, 7)) > 699999
        /\ trace[i].err = "InvalidComponent"

\* C5: classification exclusivity: every valid result has exactly one of
\* isIndividual and isCompany; for Andorra isIndividual holds exactly for a
\* leading A or F, for South Africa every valid result is a company.
ClassificationExclusive ==
    \A i \in Steps :
        /\ LastIs(i)
        /\ trace[i].op = "validate"
        /\ trace[i].ok
        => /\ trace[i].isIndividual # trace[i].isCompany
           /\ mod = "ad" => (trace[i].isIndividual <=> trace[i].val[1] \in {"A", "F"})
           /\ mod = "za" => (trace[i].isCompany /\ ~trace[i].isIndividual)

\* a valid Andorran number with a leading F has been classified
ClassificationWitness ==
    \E i \in Steps :
        /\ mod = "ad"
        /\ trace[i].op = "validate"
        /\ trace[i].ok
        /\ trace[i].val[1] = "F"
        /\ trace[i].isIndividual

\* C6: format is compact followed by pattern formatting: format(x) throws
\* the error compact(x) throws, and otherwise returns the template applied
\* to compact(x) (both modules).
FormatIsCompactThenPattern ==
    \A i \in Steps :
        LastIs(i) /\ trace[i].op = "format"
        => LET x == trace[i].arg
               c == IF mod = "za" THEN ZaCompact(x) ELSE AdCompact(x)
           IN  IF c.kind = "throw"
               THEN trace[i].kind = "throw" /\ trace[i].err = c.err
               ELSE /\ trace[i].kind = "value"
                    /\ trace[i].val =
                          IF mod = "za"
                          THEN Join(splitAt(PadStart(c.val, 11), 4, 6), ".")
                          ELSE formatPattern(NrtPattern, c.val)

\* C7: the Luhn validator answers true on "7992739871".
LuhnVector10 ==
    \A i \in Steps :
        LastIs(i) /\ trace[i].op = "luhn" /\ trace[i].arg = Luhn10 => trace[i].ok

\* C7 (amended): the Luhn validator answers false on "7992739871" and true
\* on the same digits followed by their check digit, "79927398713".
LuhnVectors ==
    \A i \in Steps :
        LastIs(i) /\ trace[i].op = "luhn"
        => /\ trace[i].arg = Luhn10 => ~trace[i].ok
           /\ trace[i].arg = Luhn11 => trace[i].ok

\* the Luhn validator has answered on "7992739871"
LuhnVectorWitness ==
    \E i \in Steps :
        trace[i].op = "luhn" /\ trace[i].arg = Luhn10 /\ trace[i].kind = "bool"

\* steps i, i+1, i+2: a cleaned 7-digit value v validated as valid, one of
\* its digits was replaced, and the result w was validated
MistypedAt(i) ==
    /\ LastIs(i + 2)
    /\ mod = "za"
    /\ trace[i].op = "validate"
    /\ trace[i].ok
    /\ trace[i].arg = trace[i].val
    /\ Len(trace[i].val) = 7
    /\ trace[i + 1].op = "mistype"
    /\ trace[i + 2].op = "validate"

\* C8: replacing one digit of a valid cleaned 7-digit value gives a value
\* that validate rejects with InvalidChecksum.
MistypeIsChecksumError ==
    \A i \in Steps :
        MistypedAt(i)
        => ~trace[i + 2].ok /\ trace[i + 2].err = "InvalidChecksum"

\* C8 (amended): replacing one digit of a valid cleaned 7-digit value gives
\* a value w that validate rejects: with InvalidLength when w begins with
\* "0000", with InvalidChecksum otherwise.
MistypeIsRejected ==
    \A i \in Steps :
        MistypedAt(i)
        => /\ ~trace[i + 2].ok
           /\ trace[i + 2].err =
                 IF StartsWith(trace[i + 1].val, ZeroRun)
                 THEN "InvalidLength" ELSE "InvalidChecksum"

\* a mistyped 7-digit value has been rejected by the Luhn check
MistypeWitness ==
    \E i \in Steps :
        /\ MistypedAt(i)
        /\ trace[i + 2].err = "InvalidChecksum"
        /\ trace[i + 2].checks = {"luhn"}

\* the remainder mod 11 of the weighted sum of the first ten digits
Remainder11(v) ==
    (6 * DigitVal(v[1]) + 7 * DigitVal(v[2]) + 8 * DigitVal(v[3])
     + 9 * DigitVal(v[4]) + 4 * DigitVal(v[5]) + 5 * DigitVal(v[6])
     + 6 * DigitVal(v[7]) + 7 * DigitVal(v[8]) + 8 * DigitVal(v[9])
     + 9 * DigitVal(v[10])) % 11

\* the cleaned value of a South African validate call is 11 digits
ElevenDigits(s) ==
    /\ ZaClean(s).err = "none"
    /\ Len(ZaClean(s).val) = 11
    /\ AllDigits(ZaClean(s).val)

\* C9: for an 11-digit cleaned value validate returns Valid exactly when
\* the weighted sum mod 11 of the first ten digits equals the last digit,
\* and InvalidChecksum otherwise (so always when the remainder is 10); it
\* never throws.
WeightedCheck ==
    \A i \in Steps :
        /\ LastIs(i)
        /\ mod = "za"
        /\ trace[i].op = "validate"
        /\ ElevenDigits(trace[i].arg)
        => LET v == ZaClean(trace[i].arg).val
           IN  /\ trace[i].kind = "result"
               /\ trace[i].ok <=> Remainder11(v) = DigitVal(v[11])
               /\ ~trace[i].ok => trace[i].err = "InvalidChecksum"

\* an 11-digit value with remainder 10 has been rejected
WeightedCheckWitness ==
    \E i \in Steps :
        /\ mod = "za"
        /\ trace[i].op = "validate"
        /\ ElevenDigits(trace[i].arg)
        /\ Remainder11(ZaClean(trace[i].arg).val) = 10
        /\ trace[i].err = "InvalidChecksum"

\* C10: re-validation: when validate(x) is valid with compact form c,
\* validate(c) is valid with the same compact form and classification.
RevalidateStable ==
    \A i \in Steps :
        /\ LastIs(i + 1)
        /\ trace[i].op = "validate"
        /\ trace[i].ok
        /\ trace[i + 1].op = "validate"
        => /\ trace[i + 1].arg = trace[i].val
           /\ trace[i + 1].ok
           /\ trace[i + 1].val = trace[i].val
           /\ trace[i + 1].isIndividual = trace[i].isIndividual
           /\ trace[i + 1].isCompany = trace[i].isCompany

====
